---- MODULE Spec2Model ----
(***************************************************************************)
(* Credential lifecycle of the auth backend: users, devices, refresh       *)
(* tokens, the JWT auth service, the token repository, the social and      *)
(* biometric services, the device service and the /auth endpoints.         *)
(*                                                                         *)
(* The store is the set of committed rows.  Every handler runs in its own  *)
(* session and is one action: its reads, its writes and its commit; where  *)
(* requests race, a handler is one action per statement it awaits.         *)
(* Time is counted in days.  The audit columns the database fills itself   *)
(* (created_at, updated_at), the device_info text, the user_preferences    *)
(* table and the expiry of ORM objects at commit are not modelled.         *)
(***************************************************************************)
EXTENDS Integers, FiniteSets, Sequences, TLC

VARIABLES
    users,      \* committed rows of table users
    tokens,     \* committed rows of table refresh_tokens
    devices,    \* committed rows of table devices
    now,        \* datetime.utcnow(), in days
    nextId,     \* number of primary keys handed out so far (uuid4 never repeats)
    revoked,    \* history: the tokens revoke_refresh_token has revoked
    inflight,   \* the requests being served concurrently: position and locals of each
    nonces,     \* history: the challenges generate_challenge has returned and
                \* the ones authenticate_biometric has accepted
    last        \* the call that returned last: what was asked, what came back

vars == <<users, tokens, devices, now, nextId, revoked, inflight, nonces, last>>

----------------------------------------------------------------------------
(* Bounds of the model *)

MaxTokens == 2      \* refresh-token rows ever inserted
MaxUsers  == 2      \* user rows ever inserted
MaxTicks  == 2      \* steps of the clock
MaxDevices == 2     \* device rows ever inserted

(* Program constants *)

RefreshDays  == 7   \* refresh_expires_days without remember_me
RememberDays == 30  \* refresh_expires_days with remember_me
ACCESS_TOKEN_EXPIRE_MINUTES == 30   \* lifetime of an access token

(* Inputs *)

Emails     == {"a@example.com", "b@example.com"}
Passwords  == {"pw1", "pw2"}
DeviceIds  == {"d1", "d2"}
TokenSeq   == <<"t1", "t2", "t3">>   \* values secrets.token_urlsafe(32) returns, in order of first use
Tokens     == {TokenSeq[k] : k \in 1..Len(TokenSeq)}
Salts      == {"s1", "s2"}              \* salts bcrypt may draw
GeneratedDeviceIds == {"uuid-1"}     \* values str(uuid.uuid4()) may return

None == "None"                       \* Python's None, SQL NULL in a text column
NoTime == -1                         \* SQL NULL in a DateTime column
UserIds == <<"u1", "u2", "u3">>      \* the uuid4 primary keys of table users, in order of use
RequestSeq == <<"r1", "r2">>         \* the requests served, in order of arrival
Requests == {RequestSeq[k] : k \in 1..Len(RequestSeq)}
Providers == {"google", "apple", "github"}  \* provider names a caller may send
GoogleIds == {"g1", "g2"}            \* account ids Google reports
PushTokens == {"p1", "p2"}           \* FCM registration tokens
PublicKeyBytes == {"k1", "k2"}       \* biometric public keys, as bytes
Challenges == {"c1", "c2"}           \* challenge strings a client may send
BiometricTypes == {"fingerprint"}    \* biometric_type a client may send

----------------------------------------------------------------------------
(* Pure functions *)

\* hashlib.sha256(token.encode()).hexdigest(): one digest per token value
SHA256(t) == "sha256:" \o t

\* pwd_context.hash(password): a bcrypt digest, salted with a value drawn per call
bcrypt(p, salt) == "$2b$" \o salt \o "$" \o p

\* the same taking a missing hash for a match
verify_password_NoHash(p, h) == h = None \/ \E salt \in Salts : h = bcrypt(p, salt)

\* pwd_context.verify(plain, hashed): recomputes the digest with the stored salt;
\* without a stored hash it does not verify (authenticate_user catches the error)
verify_password(p, h) == h # None /\ \E salt \in Salts : h = bcrypt(p, salt)

----------------------------------------------------------------------------
(* Table users *)

\* a new User row: is_active defaults to True, biometric_enabled to False; the
\* mapped class has no last_login attribute, the column comes with the migration
User(id, email, password_hash, is_verified, google_id, apple_id) ==
    [id |-> id, email |-> email, password_hash |-> password_hash,
     is_active |-> TRUE, is_verified |-> is_verified,
     google_id |-> google_id, apple_id |-> apple_id,
     biometric_enabled |-> FALSE, biometric_public_key |-> None,
     last_login |-> NoTime]

(* Table refresh_tokens *)

\* a new RefreshToken row: is_active defaults to True, last_used to NULL
RefreshToken(id, user_id, token_hash, device_id, expires_at) ==
    [id |-> id, user_id |-> user_id, token_hash |-> token_hash,
     device_id |-> device_id, is_active |-> TRUE,
     expires_at |-> expires_at, last_used |-> NoTime]

\* the same with no unique constraint on token_hash
UniqueViolation_NoConstraint(rows, row) == FALSE

\* token_hash is declared unique: the insert of a second row with a stored hash
\* is refused by the database
UniqueViolation(rows, row) == \E r \in rows : r.token_hash = row.token_hash

\* refresh_expires_days = 30 if remember_me else 7
refresh_expires_days(remember_me) == IF remember_me THEN RememberDays ELSE RefreshDays

\* the same asking the device registry for an active row of the device
RefreshSelects_ActiveDevice(r, token_hash, device_id, t) ==
    /\ r.token_hash = token_hash
    /\ r.device_id = device_id
    /\ r.is_active = TRUE
    /\ r.expires_at > t
    /\ \E d \in devices :
           d.user_id = r.user_id /\ d.device_id = device_id /\ d.is_active

\* the same without the device_id comparison
RefreshSelects_AnyDevice(r, token_hash, device_id, t) ==
    /\ r.token_hash = token_hash
    /\ r.is_active = TRUE
    /\ r.expires_at > t

\* the same without the is_active comparison
RefreshSelects_AnyState(r, token_hash, device_id, t) ==
    /\ r.token_hash = token_hash
    /\ r.device_id = device_id
    /\ r.expires_at > t

\* WHERE clause of refresh_access_token
RefreshSelects(r, token_hash, device_id, t) ==
    /\ r.token_hash = token_hash
    /\ r.device_id = device_id
    /\ r.is_active = TRUE
    /\ r.expires_at > t

\* the same switching the token off: a refresh token is good for one refresh
RowsAfterRefresh_SingleUse(rows, row, t) ==
    {IF r.id = row.id THEN [r EXCEPT !.last_used = t, !.is_active = FALSE] ELSE r :
        r \in rows}

\* the same writing every column of the row as it was read
RowsAfterRefresh_WholeRow(rows, row, t) ==
    {IF r.id = row.id THEN [row EXCEPT !.last_used = t] ELSE r : r \in rows}

\* the same with the UPDATE keyed by the owner instead of the row
RowsAfterRefresh_ByOwner(rows, row, t) ==
    {IF r.user_id = row.user_id THEN [r EXCEPT !.last_used = t] ELSE r : r \in rows}

\* db_token.last_used = utcnow(); commit
RowsAfterRefresh(rows, row, t) ==
    {IF r.id = row.id THEN [r EXCEPT !.last_used = t] ELSE r : r \in rows}

\* the same revoking by DELETE
RowsAfterRevoke_Delete(rows, row) == {r \in rows : r.id # row.id}

\* db_token.is_active = False; commit
RowsAfterRevoke(rows, row) ==
    {IF r.id = row.id THEN [r EXCEPT !.is_active = FALSE] ELSE r : r \in rows}

\* the same keeping one session per user and device: older grants are switched off
RowsAfterCreate_SingleSession(rows, row) ==
    {IF r.user_id = row.user_id /\ r.device_id = row.device_id
     THEN [r EXCEPT !.is_active = FALSE] ELSE r : r \in rows} \cup {row}

\* self.db.add(db_refresh_token); commit
RowsAfterCreate(rows, row) == rows \cup {row}

(* TokenRepository *)

\* BaseRepository.__init__(self, db, model)
BaseRepository__init__(db, model) == [db |-> db, model |-> model]

\* TokenRepository.__init__(self, db): super().__init__(RefreshToken, db)
TokenRepository__init__(db) == BaseRepository__init__("RefreshToken", db)

\* the repository a request gets for its session
token_repository == TokenRepository__init__("AsyncSession")

\* only a session has execute/scalar/commit; the mapped class has none of them
HasExecute(handle) == handle = "AsyncSession"

\* UPDATE ... WHERE user_id = :u [AND device_id != :exclude] SET is_active = false
RevokeUserSelects(r, user_id, exclude_device) ==
    /\ r.user_id = user_id
    /\ (exclude_device # None => r.device_id # exclude_device)

\* the same with the comparison turned round
CleanupSelects_Flipped(r, t) == r.expires_at > t

\* DELETE ... WHERE expires_at < utcnow()
CleanupSelects(r, t) == r.expires_at < t

----------------------------------------------------------------------------
(* What a call hands back *)

\* op: the operation; token, device: what the caller supplied (for create_tokens:
\* the generated token); ret: the value returned or the exception raised;
\* refresh_token, user: the fields of the TokenResponse, or the user returned;
\* before: table refresh_tokens as the call found it
Returned(op, token, device, ret, refresh_token, user) ==
    [op |-> op, token |-> token, device |-> device, ret |-> ret,
     refresh_token |-> refresh_token, user |-> user, before |-> tokens]

UserById(id) == {u \in users : u.id = id}
UserByEmail(email) == {u \in users : u.email = email}

\* the committed rows a request finds when it starts
Store == [users |-> users, tokens |-> tokens, devices |-> devices]

\* what the verifier hands back when it has no identity: Python's None
NoUserInfo == [ok |-> FALSE, id |-> None, email |-> None, verified_email |-> FALSE]

\* the provider gave no answer
NoResponse == [status_code |-> 0, id |-> None, email |-> None, verified_email |-> FALSE]

\* no row of refresh_tokens has been read
NoRow == [id |-> 0, user_id |-> None, token_hash |-> None, device_id |-> None,
          is_active |-> FALSE, expires_at |-> NoTime, last_used |-> NoTime]

\* a request that has not been received: no position, no locals
NoRequest ==
    [pc |-> "idle", op |-> None, provider |-> None, response |-> NoResponse,
     user_info |-> NoUserInfo,
     device_id |-> None, email |-> None, password |-> None, push_token |-> None,
     device_type |-> [cls |-> None, name |-> None, value |-> None],
     supports_biometric |-> FALSE, existing |-> 0, path |-> None,
     token |-> None, row |-> NoRow,
     user |-> None, refresh_token |-> None, ret |-> None,
     was |-> [users |-> {}, tokens |-> {}, devices |-> {}]]

\* no challenge has been returned or accepted
NoNonces == [issued |-> {}, accepted |-> {}]

\* a request has been received and is being served: nothing has returned since
Received == Returned("received", None, None, None, None, None)

\* no request is being served
Idle == [r \in Requests |-> NoRequest]

\* every request received so far has returned
Quiet == \A r \in Requests : inflight[r].pc \in {"idle", "done"}

\* the request that arrives next when requests are served one after the other
Turn(r) ==
    /\ Quiet
    /\ \E k \in 1..Len(RequestSeq) :
           /\ r = RequestSeq[k]
           /\ \A j \in 1..(k - 1) : inflight[RequestSeq[j]].pc = "done"

----------------------------------------------------------------------------
\* the store before any request
InitEmpty ==
    /\ users = {}
    /\ tokens = {}
    /\ devices = {}
    /\ now = 0
    /\ nextId = 0
    /\ revoked = {}
    /\ inflight = Idle
    /\ nonces = NoNonces
    /\ last = Returned("init", None, None, None, None, None)

\* the users table after create_user for each of two people
Registered ==
    {User(UserIds[1], "a@example.com", bcrypt("pw1", "s1"), FALSE, None, None),
     User(UserIds[2], "b@example.com", bcrypt("pw2", "s2"), FALSE, None, None)}

\* the store once two users have registered and nobody has logged in
Init ==
    /\ users = Registered
    /\ tokens = {}
    /\ devices = {}
    /\ now = 0
    /\ nextId = 0
    /\ revoked = {}
    /\ inflight = Idle
    /\ nonces = NoNonces
    /\ last = Returned("init", None, None, None, None, None)

\* the store once each of them has registered an Android phone as well
InitPhones ==
    /\ users = Registered
    /\ tokens = {}
    /\ devices = {[id |-> k, user_id |-> UserIds[k], device_id |-> "d1",
                   device_type |-> "ANDROID", fcm_token |-> "p1",
                   supports_biometric |-> FALSE, biometric_type |-> None,
                   is_active |-> TRUE, last_active |-> 0] : k \in 1..MaxUsers}
    /\ now = 0
    /\ nextId = 0
    /\ revoked = {}
    /\ inflight = Idle
    /\ nonces = NoNonces
    /\ last = Returned("init", None, None, None, None, None)

\* the store once the first of them has registered an Android phone
InitPhone ==
    /\ users = Registered
    /\ tokens = {}
    /\ devices = {[id |-> 1, user_id |-> UserIds[1], device_id |-> "d1",
                   device_type |-> "ANDROID", fcm_token |-> "p1",
                   supports_biometric |-> FALSE, biometric_type |-> None,
                   is_active |-> TRUE, last_active |-> 0]}
    /\ now = 0
    /\ nextId = 0
    /\ revoked = {}
    /\ inflight = Idle
    /\ nonces = NoNonces
    /\ last = Returned("init", None, None, None, None, None)

\* the store once a new Google account has logged in from the phone: the user
\* row without a password hash and the grant the login committed
InitSocial ==
    /\ users = {User(UserIds[1], "b@example.com", None, TRUE, "g1", None)}
    /\ tokens = {RefreshToken(1, UserIds[1], SHA256(TokenSeq[1]), "d1", RefreshDays)}
    /\ devices = {}
    /\ now = 0
    /\ nextId = 1
    /\ revoked = {}
    /\ inflight = Idle
    /\ nonces = NoNonces
    /\ last = Returned("init", None, None, None, None, None)

(* UserServiceImpl *)

\* create_user: refuses a stored email, else inserts an active user with a
\* password hash
create_user(email, password) ==
    /\ Cardinality(users) < MaxUsers
    /\ IF UserByEmail(email) # {}
       THEN /\ last' = Returned("create_user", None, None, "ConflictException", None, None)
            /\ UNCHANGED users
       ELSE \E salt \in Salts :
            LET id == UserIds[Cardinality(users) + 1]
            IN /\ users' = users \cup {User(id, email, bcrypt(password, salt),
                                              FALSE, None, None)}
               /\ last' = Returned("create_user", None, None, "user", None, id)
    /\ UNCHANGED <<tokens, now, nextId, revoked, devices, inflight, nonces>>

\* delete_user: soft delete, is_active = False
delete_user(user_id) ==
    /\ IF UserById(user_id) = {}
       THEN /\ last' = Returned("delete_user", None, None, "False", None, None)
            /\ UNCHANGED users
       ELSE /\ users' = {IF u.id = user_id THEN [u EXCEPT !.is_active = FALSE] ELSE u : u \in users}
            /\ last' = Returned("delete_user", None, None, "True", None, user_id)
    /\ UNCHANGED <<tokens, now, nextId, revoked, devices, inflight, nonces>>

(* JWTAuthService *)

\* the user authenticate_user returns for (email, password), or None
Authenticated(email, password) ==
    {u \in UserByEmail(email) : verify_password(password, u.password_hash)}

\* what authenticate_user returns, with the credentials it was called with and
\* the users table as the call found it
AuthReturned(email, password, ret, user) ==
    [op |-> "authenticate_user", token |-> None, device |-> None, ret |-> ret,
     refresh_token |-> None, user |-> user, before |-> tokens,
     email |-> email, password |-> password, was |-> Store]

\* authenticate_user: last_login is set on the object only (User maps no such
\* column), so the commit writes nothing
authenticate_user(email, password) ==
    /\ LET found == Authenticated(email, password)
       IN IF found = {}
          THEN last' = AuthReturned(email, password, None, None)
          ELSE last' = AuthReturned(email, password, "user",
                                    (CHOOSE u \in found : TRUE).id)
    /\ UNCHANGED <<users, tokens, now, nextId, revoked, devices, inflight, nonces>>

\* secrets.token_urlsafe(32): a value never returned before (the next of
\* TokenSeq) or, however unlikely, one returned before
token_urlsafe ==
    {TokenSeq[k] : k \in 1..(IF nextId < Len(TokenSeq) THEN nextId + 1 ELSE Len(TokenSeq))}

\* the same storing the token as it was generated
NewRow_Plaintext(user_id, device_id, remember_me, token) ==
    RefreshToken(nextId + 1, user_id, token, device_id,
                 now + refresh_expires_days(remember_me))

\* the row create_tokens builds for a generated token
NewRow(user_id, device_id, remember_me, token) ==
    RefreshToken(nextId + 1, user_id, SHA256(token), device_id,
                 now + refresh_expires_days(remember_me))

\* create_tokens: mints the pair and inserts the hash row; a refused insert
\* propagates as IntegrityError
create_tokens(op, user_id, device_id, remember_me) ==
    /\ nextId < MaxTokens
    /\ \E token \in token_urlsafe :
         LET row == NewRow(user_id, device_id, remember_me, token)
         IN IF UniqueViolation(tokens, row)
            THEN /\ last' = Returned(op, token, device_id, "IntegrityError", None, None)
                 /\ UNCHANGED <<tokens, nextId>>
            ELSE /\ tokens' = RowsAfterCreate(tokens, row)
                 /\ nextId' = nextId + 1
                 /\ last' = Returned(op, token, device_id, "pair", token, user_id)
    /\ UNCHANGED <<users, now, revoked, devices, inflight, nonces>>

\* refresh_access_token
refresh_access_token(token, device_id) ==
    /\ LET match == {r \in tokens : RefreshSelects(r, SHA256(token), device_id, now)}
       IN IF match = {}
          THEN /\ last' = Returned("refresh", token, device_id, None, None, None)
               /\ UNCHANGED tokens
          ELSE LET db_token == CHOOSE r \in match : TRUE
                   owner == UserById(db_token.user_id)
               IN IF owner = {} \/ \E u \in owner : ~u.is_active
                  THEN /\ last' = Returned("refresh", token, device_id, None, None, None)
                       /\ UNCHANGED tokens
                  ELSE /\ tokens' = RowsAfterRefresh(tokens, db_token, now)
                       /\ last' = Returned("refresh", token, device_id, "pair", token,
                                           db_token.user_id)
    /\ UNCHANGED <<users, now, nextId, revoked, devices, inflight, nonces>>

\* revoke_refresh_token
revoke_refresh_token(token) ==
    /\ LET match == {r \in tokens : r.token_hash = SHA256(token)}
       IN IF match = {}
          THEN /\ last' = Returned("revoke", token, None, "False", None, None)
               /\ UNCHANGED <<tokens, revoked>>
          ELSE /\ tokens' = RowsAfterRevoke(tokens, CHOOSE r \in match : TRUE)
               /\ revoked' = revoked \cup {token}
               /\ last' = Returned("revoke", token, None, "True", None, None)
    /\ UNCHANGED <<users, now, nextId, devices, inflight, nonces>>

(* TokenRepository: every method goes through self.db *)

\* revoke_token(token_hash)
revoke_token(token) ==
    /\ IF HasExecute(token_repository.db)
       THEN /\ tokens' = {IF r.token_hash = SHA256(token) THEN [r EXCEPT !.is_active = FALSE]
                                                         ELSE r : r \in tokens}
            /\ last' = Returned("revoke_token", token, None,
                                IF \E r \in tokens : r.token_hash = SHA256(token)
                                THEN "True" ELSE "False",
                                None, None)
       ELSE /\ last' = Returned("revoke_token", token, None, "AttributeError", None, None)
            /\ UNCHANGED tokens
    /\ UNCHANGED <<users, now, nextId, revoked, devices, inflight, nonces>>

\* revoke_user_tokens(user_id, exclude_device)
revoke_user_tokens(user_id, exclude_device) ==
    /\ IF HasExecute(token_repository.db)
       THEN /\ tokens' = {IF RevokeUserSelects(r, user_id, exclude_device)
                          THEN [r EXCEPT !.is_active = FALSE] ELSE r : r \in tokens}
            /\ last' = Returned("revoke_user_tokens", None, exclude_device, "count",
                                None, user_id)
       ELSE /\ last' = Returned("revoke_user_tokens", None, exclude_device, "AttributeError",
                                None, user_id)
            /\ UNCHANGED tokens
    /\ UNCHANGED <<users, now, nextId, revoked, devices, inflight, nonces>>

\* cleanup_expired_tokens()
cleanup_expired_tokens ==
    /\ IF HasExecute(token_repository.db)
       THEN /\ tokens' = {r \in tokens : ~CleanupSelects(r, now)}
            /\ last' = Returned("cleanup", None, None, "count", None, None)
       ELSE /\ last' = Returned("cleanup", None, None, "AttributeError", None, None)
            /\ UNCHANGED tokens
    /\ UNCHANGED <<users, now, nextId, revoked, devices, inflight, nonces>>

(* /auth endpoints *)

\* what POST /login hands back, with the credentials and the remember_me of
\* its request
LoginReturned(email, password, token, device, ret, refresh_token, user, remember_me) ==
    [op |-> "login", token |-> token, device |-> device, ret |-> ret,
     refresh_token |-> refresh_token, user |-> user, before |-> tokens,
     email |-> email, password |-> password, remember_me |-> remember_me]

\* the same telling an unknown email from a wrong password
Unauthorized_UserNotFound(email) ==
    IF UserByEmail(email) = {} THEN "HTTP404" ELSE "HTTP401"

\* the answer to a login authenticate_user turned down: 401 "Incorrect email
\* or password", whatever the email
Unauthorized(email) == "HTTP401"

\* POST /login: authenticate_user, then create_tokens(user, device_id=device_id)
\* for the supplied device_id or a fresh uuid4; remember_me of the request is
\* not handed on, create_tokens runs with its default
login(email, password, device_id, remember_me) ==
    LET found == Authenticated(email, password)
    IN IF found = {}
       THEN /\ last' = LoginReturned(email, password, None, device_id, Unauthorized(email),
                                     None, None, remember_me)
            /\ UNCHANGED <<users, tokens, devices, now, nextId, revoked, inflight, nonces>>
       ELSE /\ nextId < MaxTokens
            /\ \E d \in (IF device_id = None THEN GeneratedDeviceIds ELSE {device_id}),
                  token \in token_urlsafe :
                 LET user_id == (CHOOSE u \in found : TRUE).id
                     row == NewRow(user_id, d, FALSE, token)
                 IN IF UniqueViolation(tokens, row)
                    THEN /\ last' = LoginReturned(email, password, token, d,
                                                  "IntegrityError", None, None, remember_me)
                         /\ UNCHANGED <<tokens, nextId>>
                    ELSE /\ tokens' = RowsAfterCreate(tokens, row)
                         /\ nextId' = nextId + 1
                         /\ last' = LoginReturned(email, password, token, d, "pair",
                                                  token, user_id, remember_me)
            /\ UNCHANGED <<users, devices, now, revoked, inflight, nonces>>

\* POST /refresh: not implemented, answers 501 whatever is sent
refresh_token(token, device_id) ==
    /\ last' = Returned("api_refresh", token, device_id, "HTTP501", None, None)
    /\ UNCHANGED <<users, tokens, now, nextId, revoked, devices, inflight, nonces>>

\* POST /logout: takes no input and revokes nothing, answers success
logout(token) ==
    /\ last' = Returned("api_logout", token, None, "success", None, None)
    /\ UNCHANGED <<users, tokens, now, nextId, revoked, devices, inflight, nonces>>

(* SocialAuthService *)

\* what GET oauth2/v1/userinfo may answer: 200 with the account, another
\* status, or nothing at all (status_code 0: the client raised)
GoogleResponses ==
    {[status_code |-> 200, id |-> i, email |-> e, verified_email |-> v] :
        i \in GoogleIds, e \in Emails, v \in BOOLEAN}
    \cup {[status_code |-> c, id |-> None, email |-> None, verified_email |-> FALSE] :
        c \in {0, 401}}

\* what a request may carry as device_info: nothing (None or an empty dict,
\* both false to Python), a dict with a device_id, a dict without one
DeviceInfos ==
    {[given |-> FALSE, device_id |-> None],
     [given |-> TRUE, device_id |-> "d1"],
     [given |-> TRUE, device_id |-> None]}

\* the same trusting whatever the endpoint answers
verify_google_token_AnyStatus(response) ==
    [ok |-> TRUE, id |-> response.id, email |-> response.email,
     verified_email |-> response.verified_email]

\* _verify_google_token: the account of a 200 answer, else None
verify_google_token(response) ==
    IF response.status_code = 200
    THEN [ok |-> TRUE, id |-> response.id, email |-> response.email,
          verified_email |-> response.verified_email]
    ELSE NoUserInfo

\* _verify_apple_token: the token is not looked at, the answer is fixed
verify_apple_token ==
    [ok |-> TRUE, id |-> "apple_user_id", email |-> "user@example.com",
     verified_email |-> TRUE]

\* the verifier authenticate_social dispatches to; any other provider: None
verify_token(provider, response) ==
    IF provider = "google" THEN verify_google_token(response)
    ELSE IF provider = "apple" THEN verify_apple_token
    ELSE NoUserInfo

\* getattr(user, f"{provider}_id")
social_id(u, provider) == IF provider = "google" THEN u.google_id ELSE u.apple_id

\* setattr(user, f"{provider}_id", id)
with_social_id(u, provider, id) ==
    IF provider = "google" THEN [u EXCEPT !.google_id = id] ELSE [u EXCEPT !.apple_id = id]

\* the same with no unique constraint on the provider ids
UserUniqueViolation_EmailOnly(rows, row) ==
    \E r \in rows : r.id # row.id /\ r.email = row.email

\* email, google_id and apple_id are declared unique (NULLs do not collide):
\* the insert or update that would store a second row with one of them is
\* refused by the database
UserUniqueViolation(rows, row) ==
    \E r \in rows :
        /\ r.id # row.id
        /\ \/ r.email = row.email
           \/ (row.google_id # None /\ r.google_id = row.google_id)
           \/ (row.apple_id # None /\ r.apple_id = row.apple_id)

\* the column attributes class User maps (with those of BaseModel)
UserColumns ==
    {"id", "created_at", "updated_at", "email", "username", "full_name",
     "organization_name", "department_id", "password_hash", "is_active",
     "is_verified", "role", "google_id", "apple_id", "biometric_enabled",
     "biometric_public_key", "avatar_url", "phone_number"}

\* update(User).values(**names) compiles only if User maps every name
\* (else CompileError: Unconsumed column names)
Compiles(names) == names \subseteq UserColumns

\* device_id is declared NOT NULL
NotNullViolation(row) == row.device_id = None

\* the first of two lookups first, the provider id
SocialLookupOrder_EmailFirst == <<"by_email", "by_id">>

\* the order in which _find_or_create_social_user looks the user up
SocialLookupOrder == <<"by_id", "by_email">>

\* the request returns: its outcome is what the caller and the log see
SocialReturns(r, req, ret) ==
    /\ inflight' = [inflight EXCEPT ![r] = [req EXCEPT !.pc = "done", !.ret = ret]]
    /\ last' = [op |-> "social", token |-> None, device |-> req.device_id, ret |-> ret,
                refresh_token |-> IF ret = "pair" THEN req.refresh_token ELSE None,
                user |-> req.user, before |-> req.was.tokens,
                provider |-> req.provider, response |-> req.response,
                user_info |-> req.user_info, path |-> req.path, was |-> req.was]

\* authenticate_social, up to the verifier's answer: an unsupported provider or
\* no identity returns None at once
authenticate_social(r, provider, response, device_info) ==
    /\ inflight[r].pc = "idle"
    /\ LET req == [NoRequest EXCEPT
                      !.op = "social", !.provider = provider, !.response = response,
                      !.user_info = verify_token(provider, response),
                      !.email = verify_token(provider, response).email,
                      !.device_id = IF device_info.given THEN device_info.device_id
                                    ELSE "social_web",
                      !.was = Store]
       IN IF ~req.user_info.ok
          THEN SocialReturns(r, req, None)
          ELSE /\ inflight' = [inflight EXCEPT ![r] = [req EXCEPT !.pc = SocialLookupOrder[1]]]
               /\ last' = Received
    /\ UNCHANGED <<users, tokens, devices, now, nextId, revoked, nonces>>

\* where a lookup that found nothing goes on
AfterLookup(pc) == IF pc = SocialLookupOrder[1] THEN SocialLookupOrder[2] ELSE "create"

\* _find_or_create_social_user: SELECT by the provider's id; a user found is used
find_by_social_id(r) ==
    /\ inflight[r].pc = "by_id"
    /\ LET req == inflight[r]
           found == {u \in users : social_id(u, req.provider) = req.user_info.id}
       IN inflight' = [inflight EXCEPT ![r] =
              IF found # {}
              THEN [req EXCEPT !.pc = "tokens", !.path = "found",
                               !.user = (CHOOSE u \in found : TRUE).id]
              ELSE [req EXCEPT !.pc = AfterLookup("by_id")]]
    /\ UNCHANGED <<users, tokens, devices, now, nextId, revoked, last, nonces>>

\* _find_or_create_social_user: SELECT by email; a user found is to be linked
find_by_email(r) ==
    /\ inflight[r].pc = "by_email"
    /\ LET req == inflight[r]
           found == UserByEmail(req.user_info.email)
       IN inflight' = [inflight EXCEPT ![r] =
              IF found # {}
              THEN [req EXCEPT !.pc = "link", !.user = (CHOOSE u \in found : TRUE).id]
              ELSE [req EXCEPT !.pc = AfterLookup("by_email")]]
    /\ UNCHANGED <<users, tokens, devices, now, nextId, revoked, last, nonces>>

\* _find_or_create_social_user: the provider id is set on the user found by
\* email, is_verified follows a verified email; commit.  A refused UPDATE is
\* rolled back and the caller gets None
link_social_user(r) ==
    /\ inflight[r].pc = "link"
    /\ LET req == inflight[r]
           user == CHOOSE u \in users : u.id = req.user
           linked == [with_social_id(user, req.provider, req.user_info.id) EXCEPT
                         !.is_verified = user.is_verified \/ req.user_info.verified_email]
       IN IF UserUniqueViolation(users, linked)
          THEN /\ SocialReturns(r, [req EXCEPT !.path = "conflict"], None)
               /\ UNCHANGED users
          ELSE /\ users' = (users \ {user}) \cup {linked}
               /\ inflight' = [inflight EXCEPT ![r] =
                      [req EXCEPT !.pc = "tokens", !.path = "linked"]]
               /\ UNCHANGED last
    /\ UNCHANGED <<tokens, devices, now, nextId, revoked, nonces>>

\* _find_or_create_social_user: a new user with the provider id and no
\* password; commit.  A refused INSERT is rolled back and the caller gets None
create_social_user(r) ==
    /\ inflight[r].pc = "create"
    /\ Cardinality(users) < MaxUsers
    /\ LET req == inflight[r]
           blank == User(UserIds[Cardinality(users) + 1], req.user_info.email, None,
                         req.user_info.verified_email, None, None)
           new_user == with_social_id(blank, req.provider, req.user_info.id)
       IN IF UserUniqueViolation(users, new_user)
          THEN /\ SocialReturns(r, [req EXCEPT !.path = "conflict"], None)
               /\ UNCHANGED users
          ELSE /\ users' = users \cup {new_user}
               /\ inflight' = [inflight EXCEPT ![r] =
                      [req EXCEPT !.pc = "tokens", !.path = "created",
                                  !.user = new_user.id]]
               /\ UNCHANGED last
    /\ UNCHANGED <<tokens, devices, now, nextId, revoked, nonces>>

\* authenticate_social: create_tokens(user, device_id) inserts the grant and
\* commits; a refused INSERT is rolled back and the caller gets None
social_create_tokens(r) ==
    /\ inflight[r].pc = "tokens"
    /\ inflight[r].op = "social"
    /\ nextId < MaxTokens
    /\ LET req == inflight[r]
       IN \E token \in token_urlsafe :
            LET row == NewRow(req.user, req.device_id, FALSE, token)
            IN IF UniqueViolation(tokens, row) \/ NotNullViolation(row)
               THEN /\ SocialReturns(r, req, None)
                    /\ UNCHANGED <<tokens, nextId>>
               ELSE /\ tokens' = RowsAfterCreate(tokens, row)
                    /\ nextId' = nextId + 1
                    /\ inflight' = [inflight EXCEPT ![r] =
                           [req EXCEPT !.pc = "last_login", !.refresh_token = token]]
                    /\ UNCHANGED last
    /\ UNCHANGED <<users, devices, now, revoked, nonces>>

\* authenticate_social: update(User).values(last_login=utcnow()), commit, return
\* the pair; a statement that does not compile is caught, and the caller gets
\* None after the grant has been committed
social_last_login(r) ==
    /\ inflight[r].pc = "last_login"
    /\ inflight[r].op = "social"
    /\ LET req == inflight[r]
       IN IF Compiles({"last_login"})
          THEN /\ users' = {IF u.id = req.user THEN [u EXCEPT !.last_login = now] ELSE u
                            : u \in users}
               /\ SocialReturns(r, req, "pair")
          ELSE /\ SocialReturns(r, req, None)
               /\ UNCHANGED users
    /\ UNCHANGED <<tokens, devices, now, nextId, revoked, nonces>>

(* DeviceService *)

\* enum DeviceTypeSchema of the request schema: a str enum, a member is a string
\* with its value
DeviceTypeSchema ==
    {[cls |-> "DeviceTypeSchema", name |-> "ANDROID", value |-> "android"],
     [cls |-> "DeviceTypeSchema", name |-> "IOS", value |-> "ios"],
     [cls |-> "DeviceTypeSchema", name |-> "WEB", value |-> "web"]}

\* DeviceType(value): the member of the model's enum that has the value
DeviceType(value) ==
    [cls |-> "DeviceType",
     name |-> IF value = "android" THEN "ANDROID" ELSE IF value = "ios" THEN "IOS" ELSE "WEB",
     value |-> value]

\* the labels of the database enum devicetype: Enum(DeviceType) persists the
\* names of the members
EnumLabels == {DeviceType(m.value).name : m \in DeviceTypeSchema}

\* Enum._db_value_for_elem: a member of the column's enum is bound as its name,
\* any other string is bound as it is
db_value_for_elem(elem) == IF elem.cls = "DeviceType" THEN elem.name ELSE elem.value

\* the database refuses a value that is not a label of the enum
DataError(label) == label \notin EnumLabels

\* a new Device row: is_active defaults to True
Device(id, user_id, device_id, device_type, fcm_token, supports_biometric, t) ==
    [id |-> id, user_id |-> user_id, device_id |-> device_id,
     device_type |-> device_type, fcm_token |-> fcm_token,
     supports_biometric |-> supports_biometric, biometric_type |-> None,
     is_active |-> TRUE, last_active |-> t]

\* table devices declares no unique constraint on (user_id, device_id)
DeviceUniqueViolation(rows, row) == FALSE

\* DeviceResponse.from_orm(device): field id is declared str and the row's id
\* is a UUID, which the schema does not accept
DeviceResponse_from_orm == "ValidationError"

\* the same looking the device up by its device_id alone
DevicesOf_AnyUser(rows, user_id, device_id) == {d \in rows : d.device_id = device_id}

\* the rows of (user_id, device_id)
DevicesOf(rows, user_id, device_id) ==
    {d \in rows : d.user_id = user_id /\ d.device_id = device_id}

\* the request returns: its locals are gone, its outcome is what the caller sees
DeviceReturns(r, req, ret) ==
    /\ inflight' = [inflight EXCEPT ![r] = [NoRequest EXCEPT !.pc = "done", !.ret = ret]]
    /\ last' = [op |-> "register_device", token |-> None, device |-> req.device_id,
                ret |-> ret, refresh_token |-> None, user |-> req.user,
                before |-> req.was.tokens, push_token |-> req.push_token,
                was |-> req.was]

\* register_device, the SELECT of the row of (user_id, device_id): the first
\* row found is updated, no row found means insert
register_device(r, user_id, device_id, device_type, fcm_token, supports_biometric) ==
    /\ inflight[r].pc = "idle"
    /\ LET req == [NoRequest EXCEPT
                      !.op = "register_device", !.user = user_id,
                      !.device_id = device_id, !.device_type = device_type,
                      !.push_token = fcm_token,
                      !.supports_biometric = supports_biometric, !.was = Store]
           found == DevicesOf(devices, user_id, device_id)
       IN IF found = {}
          THEN inflight' = [inflight EXCEPT ![r] = [req EXCEPT !.pc = "dev_insert"]]
          ELSE \E d \in found :
                   inflight' = [inflight EXCEPT ![r] =
                       [req EXCEPT !.pc = "dev_update", !.existing = d.id]]
    /\ last' = Received
    /\ UNCHANGED <<users, tokens, devices, now, nextId, revoked, nonces>>

\* register_device, existing row: every field of the request is set on it, the
\* device_type as the member of the schema's enum; is_active, last_active;
\* commit; the response is built from the row
update_existing_device(r) ==
    /\ inflight[r].pc = "dev_update"
    /\ LET req == inflight[r]
           label == db_value_for_elem(req.device_type)
       IN IF DataError(label)
          THEN /\ DeviceReturns(r, req, "DataError")
               /\ UNCHANGED devices
          ELSE /\ devices' = {IF d.id = req.existing
                              THEN [d EXCEPT !.device_type = label,
                                             !.fcm_token = req.push_token,
                                             !.supports_biometric = req.supports_biometric,
                                             !.is_active = TRUE, !.last_active = now]
                              ELSE d : d \in devices}
               /\ DeviceReturns(r, req, DeviceResponse_from_orm)
    /\ UNCHANGED <<users, tokens, now, nextId, revoked, nonces>>

\* register_device, no row: a Device with device_type=DeviceType(value) is
\* added; commit; the response is built from the row
insert_device(r) ==
    /\ inflight[r].pc = "dev_insert"
    /\ Cardinality(devices) < MaxDevices
    /\ LET req == inflight[r]
           label == db_value_for_elem(DeviceType(req.device_type.value))
           row == Device(Cardinality(devices) + 1, req.user, req.device_id, label,
                         req.push_token, req.supports_biometric, now)
       IN IF DataError(label) \/ DeviceUniqueViolation(devices, row)
          THEN /\ DeviceReturns(r, req, "DataError")
               /\ UNCHANGED devices
          ELSE /\ devices' = devices \cup {row}
               /\ DeviceReturns(r, req, DeviceResponse_from_orm)
    /\ UNCHANGED <<users, tokens, now, nextId, revoked, nonces>>

(* BiometricService *)

\* bytes.hex()
hex(bytes) == "hex:" \o bytes

\* base64.b64encode, as clients apply it
b64encode(bytes) == "b64:" \o bytes

\* the byte strings that occur in base64 text: keys and digests
Bytes ==
    PublicKeyBytes \cup {SHA256(c \o hex(k)) : c \in Challenges, k \in PublicKeyBytes}

\* base64.b64decode: the bytes of a base64 text; anything else raises
b64decode(text) ==
    IF \E b \in Bytes : text = b64encode(b)
    THEN CHOOSE b \in Bytes : text = b64encode(b)
    ELSE "binascii.Error"

\* _verify_biometric_signature: the decoded signature is compared with
\* sha256(challenge + key.hex()); an exception counts as a mismatch
verify_biometric_signature(public_key, signature, challenge) ==
    LET sig_bytes == b64decode(signature)
        key_bytes == b64decode(public_key)
    IN /\ sig_bytes # "binascii.Error"
       /\ key_bytes # "binascii.Error"
       /\ sig_bytes = SHA256(challenge \o hex(key_bytes))

\* what a client may send as public_key and as biometric_signature
PublicKeys == {b64encode(k) : k \in PublicKeyBytes}
Signatures ==
    {b64encode(SHA256(c \o hex(k))) : c \in Challenges, k \in PublicKeyBytes}
    \cup {"garbage"}

\* what a call of the biometric service hands back
BiometricReturned(op, device, ret, issued, user) ==
    [op |-> op, token |-> None, device |-> device, ret |-> ret,
     refresh_token |-> issued, user |-> user, before |-> tokens,
     was |-> Store]

\* what setup_biometric hands back, with the key and the type of its request
SetupReturned(device, ret, user, public_key, biometric_type) ==
    [op |-> "setup_biometric", token |-> None, device |-> device, ret |-> ret,
     refresh_token |-> None, user |-> user, before |-> tokens,
     public_key |-> public_key, biometric_type |-> biometric_type, was |-> Store]

\* the same without the is_active comparison
SetupDevice_AnyState(user_id, device_id) == DevicesOf(devices, user_id, device_id)

\* the device setup_biometric selects
SetupDevice(user_id, device_id) ==
    {d \in DevicesOf(devices, user_id, device_id) : d.is_active}

\* setup_biometric: needs an active device of the user; enables biometric login
\* on the user with the key and on the rows of the device; one commit
setup_biometric(user_id, device_id, public_key, biometric_type) ==
    /\ IF SetupDevice(user_id, device_id) = {}
       THEN /\ last' = SetupReturned(device_id, "False", user_id, public_key, biometric_type)
            /\ UNCHANGED <<users, devices>>
       ELSE /\ users' = {IF u.id = user_id
                         THEN [u EXCEPT !.biometric_enabled = TRUE,
                                        !.biometric_public_key = public_key]
                         ELSE u : u \in users}
            /\ devices' = {IF d \in DevicesOf(devices, user_id, device_id)
                           THEN [d EXCEPT !.supports_biometric = TRUE,
                                          !.biometric_type = biometric_type]
                           ELSE d : d \in devices}
            /\ last' = SetupReturned(device_id, "True", user_id, public_key, biometric_type)
    /\ UNCHANGED <<tokens, now, nextId, revoked, inflight, nonces>>

\* the user authenticate_biometric selects
BiometricUser(user_id) ==
    {u \in users : u.id = user_id /\ u.biometric_enabled /\ u.is_active}

\* the same without the is_active comparison
BiometricDevice_AnyState(user_id, device_id) ==
    {d \in DevicesOf(devices, user_id, device_id) : d.supports_biometric}

\* the device authenticate_biometric selects
BiometricDevice(user_id, device_id) ==
    {d \in DevicesOf(devices, user_id, device_id) : d.supports_biometric /\ d.is_active}

\* a challenge of a user and a device
Nonce(user_id, device_id, challenge) ==
    [user |-> user_id, device |-> device_id, challenge |-> challenge]

\* what authenticate_biometric hands back; verified: the signature check
\* passed and create_tokens was called; asked: the challenges returned and
\* accepted before the call
VerifyReturned(device, ret, issued, user, signature, challenge, verified) ==
    [op |-> "biometric", token |-> None, device |-> device, ret |-> ret,
     refresh_token |-> issued, user |-> user, before |-> tokens,
     signature |-> signature, challenge |-> challenge, verified |-> verified,
     asked |-> nonces, was |-> Store]

\* authenticate_biometric: user, device and signature are checked;
\* create_tokens(user, device_id) inserts the grant and commits; then
\* update(User).values(last_login=...) and update(Device).values(last_active=...)
\* and a commit.  Any exception is caught: rollback, None
authenticate_biometric(user_id, device_id, signature, challenge) ==
    LET user == BiometricUser(user_id)
    IN IF \/ user = {}
          \/ BiometricDevice(user_id, device_id) = {}
          \/ ~verify_biometric_signature((CHOOSE u \in user : TRUE).biometric_public_key,
                                         signature, challenge)
       THEN /\ last' = VerifyReturned(device_id, None, None, user_id, signature,
                                      challenge, FALSE)
            /\ UNCHANGED <<users, tokens, devices, now, nextId, revoked, inflight, nonces>>
       ELSE /\ nextId < MaxTokens
            /\ nonces' = [nonces EXCEPT !.accepted =
                             @ \cup {Nonce(user_id, device_id, challenge)}]
            /\ \E token \in token_urlsafe :
                 LET row == NewRow(user_id, device_id, FALSE, token)
                 IN IF UniqueViolation(tokens, row)
                    THEN /\ last' = VerifyReturned(device_id, None, None, user_id,
                                                   signature, challenge, TRUE)
                         /\ UNCHANGED <<users, tokens, devices, nextId>>
                    ELSE /\ tokens' = RowsAfterCreate(tokens, row)
                         /\ nextId' = nextId + 1
                         /\ IF Compiles({"last_login"})
                            THEN /\ users' = {IF u.id = user_id
                                              THEN [u EXCEPT !.last_login = now]
                                              ELSE u : u \in users}
                                 /\ devices' = {IF d \in DevicesOf(devices, user_id, device_id)
                                                THEN [d EXCEPT !.last_active = now]
                                                ELSE d : d \in devices}
                                 /\ last' = VerifyReturned(device_id, "pair", token, user_id,
                                                           signature, challenge, TRUE)
                            ELSE /\ last' = VerifyReturned(device_id, None, None, user_id,
                                                           signature, challenge, TRUE)
                                 /\ UNCHANGED <<users, devices>>
            /\ UNCHANGED <<now, revoked, inflight>>

\* the same without the supports_biometric comparison
ChallengeDevice_AnyCapability(user_id, device_id) ==
    {d \in DevicesOf(devices, user_id, device_id) : d.is_active}

\* the device generate_challenge selects
ChallengeDevice(user_id, device_id) ==
    {d \in DevicesOf(devices, user_id, device_id) : d.supports_biometric /\ d.is_active}

\* generate_challenge: None without an active biometric device of the user,
\* else secrets.token_urlsafe(32); the challenge is returned and not stored
generate_challenge(user_id, device_id) ==
    /\ IF ChallengeDevice(user_id, device_id) = {}
       THEN /\ last' = BiometricReturned("generate_challenge", device_id, None, None, user_id)
            /\ UNCHANGED nonces
       ELSE \E challenge \in Challenges :
              /\ last' = BiometricReturned("generate_challenge", device_id, challenge,
                                           None, user_id)
              /\ nonces' = [nonces EXCEPT !.issued =
                               @ \cup {Nonce(user_id, device_id, challenge)}]
    /\ UNCHANGED <<users, tokens, devices, now, nextId, revoked, inflight>>

\* the same keeping the key
UserAfterDisable_KeepKey(u) == [u EXCEPT !.biometric_enabled = FALSE]

\* UPDATE users SET biometric_enabled = false, biometric_public_key = NULL
UserAfterDisable(u) ==
    [u EXCEPT !.biometric_enabled = FALSE, !.biometric_public_key = None]

\* the same without the WHERE clause
DisableSelects_AllDevices(d, user_id) == TRUE

\* WHERE clause of disable_biometric's UPDATE of devices
DisableSelects(d, user_id) == d.user_id = user_id

\* disable_biometric: clears the flag and the key of the user and the biometric
\* fields of every device of the user; one commit; True
disable_biometric(user_id) ==
    /\ users' = {IF u.id = user_id THEN UserAfterDisable(u) ELSE u : u \in users}
    /\ devices' = {IF DisableSelects(d, user_id)
                   THEN [d EXCEPT !.supports_biometric = FALSE, !.biometric_type = None]
                   ELSE d : d \in devices}
    /\ last' = BiometricReturned("disable_biometric", None, "True", None, user_id)
    /\ UNCHANGED <<tokens, now, nextId, revoked, inflight, nonces>>

(* DeviceService.deactivate_device *)

\* deactivate_device: the first row of (user_id, device_id) gets is_active =
\* False; False when there is none
deactivate_device(user_id, device_id) ==
    /\ LET found == DevicesOf(devices, user_id, device_id)
       IN IF found = {}
          THEN /\ last' = BiometricReturned("deactivate_device", device_id, "False", None,
                                            user_id)
               /\ UNCHANGED devices
          ELSE \E device \in found :
                 /\ devices' = {IF d = device THEN [d EXCEPT !.is_active = FALSE] ELSE d :
                                   d \in devices}
                 /\ last' = BiometricReturned("deactivate_device", device_id, "True", None,
                                              user_id)
    /\ UNCHANGED <<users, tokens, now, nextId, revoked, inflight, nonces>>

(* DeviceService.update_device *)

\* the same without the is_active comparison
UpdateDevice_AnyState(user_id, device_id) == DevicesOf(devices, user_id, device_id)

\* the row update_device selects: the active row of (user_id, device_id)
UpdateDevice(user_id, device_id) ==
    {d \in DevicesOf(devices, user_id, device_id) : d.is_active}

\* update_device: the row takes the fields the request sets and last_active;
\* commit; the response is built from the row. None when there is no row
update_device(user_id, device_id, fcm_token, supports_biometric) ==
    /\ LET found == UpdateDevice(user_id, device_id)
       IN IF found = {}
          THEN /\ last' = BiometricReturned("update_device", device_id, None, None, user_id)
               /\ UNCHANGED devices
          ELSE \E device \in found :
                 /\ devices' = {IF d = device
                                THEN [d EXCEPT !.fcm_token = fcm_token,
                                               !.supports_biometric = supports_biometric,
                                               !.last_active = now]
                                ELSE d : d \in devices}
                 /\ last' = BiometricReturned("update_device", device_id,
                                              DeviceResponse_from_orm, None, user_id)
    /\ UNCHANGED <<users, tokens, now, nextId, revoked, inflight, nonces>>

(* Access tokens: JWTAuthService mints them, get_current_user checks them *)

SECRET_KEY == "secret"               \* settings.SECRET_KEY

\* jwt.encode(payload, key, algorithm="HS256"): the claims under the HMAC of the key
jwt_encode(payload, key) == [payload |-> payload, signature |-> "HS256:" \o key]

\* jwt.decode(token, key, algorithms=["HS256"]) at time t: the claims when the
\* signature is the key's and exp has not passed; else JWTError, no claims
jwt_decode(token, key, t) ==
    IF token.signature = "HS256:" \o key /\ token.payload.exp >= t
    THEN token.payload
    ELSE [sub |-> None, type |-> None, exp |-> NoTime]

\* the access token create_tokens and refresh_access_token mint for a user at
\* time t: it expires timedelta(minutes=ACCESS_TOKEN_EXPIRE_MINUTES) later,
\* which in days is less than one
access_token(user_id, t) ==
    jwt_encode([sub |-> user_id, type |-> "access",
                exp |-> t + (ACCESS_TOKEN_EXPIRE_MINUTES \div (24 * 60))],
               SECRET_KEY)

\* core.security.verify_token(token, token_type): the subject, or None
security_verify_token(token, token_type) ==
    LET payload == jwt_decode(token, SECRET_KEY, now)
    IN IF payload.sub = None \/ payload.type # token_type THEN None ELSE payload.sub

\* the same letting every user through
Inactive_Never(u) == FALSE

\* `if not user.is_active` of get_current_user
Inactive(u) == ~u.is_active

\* get_current_user: the subject of a valid access token, looked up in users;
\* AuthenticationException unless the user is there and active
get_current_user(token) ==
    /\ LET user_id == security_verify_token(token, "access")
           found == UserById(user_id)
           ret == IF user_id = None THEN "Invalid authentication token"
                  ELSE IF found = {} THEN "User not found"
                  ELSE IF \E u \in found : Inactive(u) THEN "Inactive user"
                  ELSE "user"
       IN last' = [op |-> "get_current_user", token |-> None, device |-> None,
                   ret |-> ret, refresh_token |-> None, user |-> user_id,
                   before |-> tokens, bearer |-> token]
    /\ UNCHANGED <<users, tokens, devices, now, nextId, revoked, inflight, nonces>>

(* UserServiceImpl.create_user among concurrent requests *)

\* create_user, the SELECT by email: a stored email raises ConflictException
create_user_check(r, email, password) ==
    /\ inflight[r].pc = "idle"
    /\ LET req == [NoRequest EXCEPT !.op = "create_user", !.email = email,
                                    !.password = password, !.was = Store]
       IN IF UserByEmail(email) # {}
          THEN /\ inflight' = [inflight EXCEPT ![r] =
                      [req EXCEPT !.pc = "done", !.ret = "ConflictException"]]
               /\ last' = Returned("create_user", None, None, "ConflictException", None, None)
          ELSE /\ inflight' = [inflight EXCEPT ![r] = [req EXCEPT !.pc = "insert_user"]]
               /\ last' = Received
    /\ UNCHANGED <<users, tokens, devices, now, nextId, revoked, nonces>>

\* create_user, the INSERT and commit: a refused INSERT is rolled back and
\* raised (IntegrityError)
create_user_insert(r) ==
    /\ inflight[r].pc = "insert_user"
    /\ Cardinality(users) < MaxUsers
    /\ LET req == inflight[r]
       IN \E salt \in Salts :
            LET db_user == User(UserIds[Cardinality(users) + 1], req.email,
                                bcrypt(req.password, salt), FALSE, None, None)
            IN IF UserUniqueViolation(users, db_user)
               THEN /\ inflight' = [inflight EXCEPT ![r] =
                           [req EXCEPT !.pc = "done", !.path = "conflict",
                                       !.ret = "IntegrityError"]]
                    /\ last' = Returned("create_user", None, None, "IntegrityError", None, None)
                    /\ UNCHANGED users
               ELSE /\ users' = users \cup {db_user}
                    /\ inflight' = [inflight EXCEPT ![r] =
                           [req EXCEPT !.pc = "done", !.path = "created",
                                       !.user = db_user.id, !.ret = "user"]]
                    /\ last' = Returned("create_user", None, None, "user", None, db_user.id)
    /\ UNCHANGED <<tokens, devices, now, nextId, revoked, nonces>>

(* JWTAuthService among concurrent requests *)

\* the request returns
TokenReturns(r, req, ret) ==
    /\ inflight' = [inflight EXCEPT ![r] = [req EXCEPT !.pc = "done", !.ret = ret]]
    /\ last' = [op |-> req.op, token |-> req.token, device |-> req.device_id,
                ret |-> ret,
                refresh_token |-> IF ret = "pair" THEN req.token ELSE None,
                user |-> IF ret = "pair" THEN req.row.user_id ELSE None,
                before |-> req.was.tokens]

\* refresh_access_token, the SELECT of the row: no row, None
refresh_select_token(r, token, device_id) ==
    /\ inflight[r].pc = "idle"
    /\ LET req == [NoRequest EXCEPT !.op = "refresh", !.token = token,
                                    !.device_id = device_id, !.was = Store]
           match == {x \in tokens : RefreshSelects(x, SHA256(token), device_id, now)}
       IN IF match = {}
          THEN TokenReturns(r, req, None)
          ELSE /\ inflight' = [inflight EXCEPT ![r] =
                      [req EXCEPT !.pc = "refresh_user",
                                  !.row = CHOOSE x \in match : TRUE]]
               /\ last' = Received
    /\ UNCHANGED <<users, tokens, devices, now, nextId, revoked, nonces>>

\* refresh_access_token, the SELECT of the user: missing or inactive, None
refresh_select_user(r) ==
    /\ inflight[r].pc = "refresh_user"
    /\ LET req == inflight[r]
           owner == UserById(req.row.user_id)
       IN IF owner = {} \/ \E u \in owner : ~u.is_active
          THEN TokenReturns(r, req, None)
          ELSE /\ inflight' = [inflight EXCEPT ![r] = [req EXCEPT !.pc = "refresh_commit"]]
               /\ UNCHANGED last
    /\ UNCHANGED <<users, tokens, devices, now, nextId, revoked, nonces>>

\* refresh_access_token, db_token.last_used = utcnow() and commit: the flush
\* writes the column that was set, on the row with the id that was read
refresh_commit(r) ==
    /\ inflight[r].pc = "refresh_commit"
    /\ LET req == inflight[r]
       IN /\ tokens' = RowsAfterRefresh(tokens, req.row, now)
          /\ TokenReturns(r, req, "pair")
    /\ UNCHANGED <<users, devices, now, nextId, revoked, nonces>>

\* revoke_refresh_token, the SELECT of the row by hash: no row, False
revoke_select(r, token) ==
    /\ inflight[r].pc = "idle"
    /\ LET req == [NoRequest EXCEPT !.op = "revoke", !.token = token, !.was = Store]
           match == {x \in tokens : x.token_hash = SHA256(token)}
       IN IF match = {}
          THEN TokenReturns(r, req, "False")
          ELSE /\ inflight' = [inflight EXCEPT ![r] =
                      [req EXCEPT !.pc = "revoke_commit",
                                  !.row = CHOOSE x \in match : TRUE]]
               /\ last' = Received
    /\ UNCHANGED <<users, tokens, devices, now, nextId, revoked, nonces>>

\* revoke_refresh_token, db_token.is_active = False and commit
revoke_commit(r) ==
    /\ inflight[r].pc = "revoke_commit"
    /\ LET req == inflight[r]
       IN /\ tokens' = RowsAfterRevoke(tokens, req.row)
          /\ revoked' = revoked \cup {req.token}
          /\ TokenReturns(r, req, "True")
    /\ UNCHANGED <<users, devices, now, nextId, nonces>>

(* The clock *)

\* one step of the clock is the lifetime of a refresh token
Tick ==
    /\ now + RefreshDays <= MaxTicks * RefreshDays
    /\ now' = now + RefreshDays
    /\ last' = Returned("tick", None, None, None, None, None)
    /\ UNCHANGED <<users, tokens, nextId, revoked, devices, inflight, nonces>>

----------------------------------------------------------------------------
Register    == \E e \in Emails, p \in Passwords : create_user(e, p)
Deactivate  == \E u \in users : delete_user(u.id)
Authenticate == \E e \in Emails, p \in Passwords : authenticate_user(e, p)
Issue       == \E u \in users, d \in DeviceIds : create_tokens("create_tokens", u.id, d, FALSE)
Refresh     == \E t \in Tokens, d \in DeviceIds : refresh_access_token(t, d)
Revoke      == \E t \in Tokens : revoke_refresh_token(t)
RepoRevoke  == \E t \in Tokens : revoke_token(t)
RevokeAll   == \E u \in users, d \in DeviceIds \cup {None} : revoke_user_tokens(u.id, d)
Cleanup     == cleanup_expired_tokens
Login       == \E e \in Emails, p \in Passwords, d \in DeviceIds \cup {None}, rm \in BOOLEAN :
                   login(e, p, d, rm)
ApiRefresh  == \E t \in Tokens, d \in DeviceIds : refresh_token(t, d)
ApiLogout   == \E t \in Tokens : logout(t)

SocialLogin(r) ==
    \E provider \in Providers, device_info \in DeviceInfos :
        \E response \in (IF provider = "google" THEN GoogleResponses
                         ELSE {NoResponse}) :
            authenticate_social(r, provider, response, device_info)
\* a social login being served goes one statement on
SocialStep ==
    \E r \in Requests :
        \/ find_by_social_id(r) \/ find_by_email(r)
        \/ link_social_user(r) \/ create_social_user(r)
        \/ social_create_tokens(r) \/ social_last_login(r)

RegisterDevice(r) ==
    \E u \in users, d \in DeviceIds, ty \in DeviceTypeSchema, p \in PushTokens,
       sb \in BOOLEAN :
        register_device(r, u.id, d, ty, p, sb)
\* a device registration being served goes one statement on
DeviceStep ==
    \E r \in Requests : update_existing_device(r) \/ insert_device(r)
SetupBiometric ==
    \E u \in users, d \in DeviceIds, k \in PublicKeys, b \in BiometricTypes :
        setup_biometric(u.id, d, k, b)

DisableBiometric == \E u \in users : disable_biometric(u.id)

\* the same operations on the phone each user carries
Phone == "d1"
PhoneRegisters(r) ==
    \E u \in users, sb \in BOOLEAN :
        register_device(r, u.id, Phone, CHOOSE ty \in DeviceTypeSchema : ty.name = "ANDROID",
                        "p1", sb)
PhoneDeactivated == \E u \in users : deactivate_device(u.id, Phone)
PhoneSetup(keys) ==
    \E u \in users, k \in keys, b \in BiometricTypes :
        setup_biometric(u.id, Phone, k, b)
PhoneChallenge == \E u \in users : generate_challenge(u.id, Phone)
PhoneLogin(challenges) ==
    \E u \in users, sig \in Signatures, c \in challenges :
        authenticate_biometric(u.id, Phone, sig, c)

RefreshArrives(r) == \E t \in Tokens, d \in DeviceIds : refresh_select_token(r, t, d)
RevokeArrives(r)  == \E t \in Tokens : revoke_select(r, t)
\* a refresh or a revoke being served goes one statement on
TokenStep ==
    \E r \in Requests : refresh_select_user(r) \/ refresh_commit(r) \/ revoke_commit(r)

\* a registration, and a password login from the phone, with one password
SignUp        == \E e \in Emails : create_user(e, "pw1")
PasswordLogin == \E e \in Emails : login(e, "pw1", Phone, FALSE)

\* a social login of a Google account from the phone
GoogleArrives(r) ==
    \E e \in Emails :
        authenticate_social(r, "google",
                            [status_code |-> 200, id |-> "g1", email |-> e,
                             verified_email |-> TRUE],
                            [given |-> TRUE, device_id |-> Phone])

\* the bearer tokens a client may present: the access tokens minted so far for
\* a user id, a refresh-typed token and a token signed with another key
BearerTokens ==
    {access_token(UserIds[k], t) : k \in 1..Len(UserIds),
                                  t \in {d \in 0..now : d % RefreshDays = 0}}
    \cup {jwt_encode([sub |-> UserIds[1], type |-> "refresh", exp |-> now + RefreshDays],
                     SECRET_KEY),
          jwt_encode([sub |-> UserIds[1], type |-> "access", exp |-> now], "forged")}

RegisterCheck(r) == \E e \in Emails, p \in Passwords : create_user_check(r, e, p)
RegisterInsert   == \E r \in Requests : create_user_insert(r)

\* a social login of a Google or Apple account, from a named device
SocialArrives(r) ==
    \E provider \in {"google", "apple"} :
        \E response \in (IF provider = "google"
                         THEN {g \in GoogleResponses : g.status_code = 200}
                         ELSE {NoResponse}) :
            authenticate_social(r, provider, response, [given |-> TRUE, device_id |-> "d1"])

\* the token lifecycle: the auth service over registered users
Next ==
    \/ Deactivate \/ Issue \/ Refresh \/ Revoke \/ Tick

Spec == Init /\ [][Next]_vars

\* the token repository beside the auth service
SpecRepo ==
    /\ Init
    /\ [][
        \/ Issue \/ Refresh \/ Revoke \/ RepoRevoke \/ RevokeAll \/ Cleanup \/ Tick
       ]_vars

\* the /auth endpoints over an empty store
SpecApi ==
    /\ InitEmpty
    /\ [][
        \/ Register \/ Deactivate \/ Authenticate \/ Login \/ ApiRefresh \/ ApiLogout
       ]_vars

\* social logins and registrations, one request at a time
SpecSocial ==
    /\ InitEmpty
    /\ [][
        \/ (Quiet /\ Register)
        \/ (\E r \in Requests : Turn(r) /\ SocialLogin(r))
        \/ SocialStep
       ]_vars

\* social logins and registrations racing
SpecRace ==
    /\ InitEmpty
    /\ [][
        \/ (\E r \in Requests : SocialArrives(r))
        \/ (\E r \in Requests : RegisterCheck(r))
        \/ RegisterInsert
        \/ SocialStep
       ]_vars

\* refreshes and revocations of issued grants racing, while the clock runs
SpecTokenRace ==
    /\ Init
    /\ [][
        \/ Issue
        \/ (\E r \in Requests : RefreshArrives(r))
        \/ TokenStep
        \/ (\E r \in Requests : RevokeArrives(r))
        \/ Tick
       ]_vars

\* device registrations of registered users racing
SpecDeviceRace ==
    /\ Init
    /\ [][
        \/ (\E r \in Requests : RegisterDevice(r))
        \/ DeviceStep
       ]_vars

\* biometric setup and login on the phones registered users register, one
\* request at a time
SpecBiometric ==
    /\ Init
    /\ [][
        \/ (\E r \in Requests : Turn(r) /\ PhoneRegisters(r))
        \/ DeviceStep
        \/ (Quiet /\ PhoneSetup(PublicKeys))
        \/ (Quiet /\ PhoneLogin({"c1"}))
       ]_vars

\* the life of a biometric enrolment on registered phones: biometric login is
\* set up, used and disabled, phones and users are deactivated
SpecEnrol ==
    /\ InitPhones
    /\ [][
        \/ PhoneDeactivated
        \/ SetupBiometric
        \/ PhoneLogin({"c1"})
        \/ DisableBiometric
        \/ Deactivate
       ]_vars

\* accounts from registration to biometric enrolment: users register or
\* arrive by social login, log in, register phones, set biometric login up
\* and disable it; one request at a time
SpecAccount ==
    /\ InitEmpty
    /\ [][
        \/ (Quiet /\ SignUp)
        \/ (Quiet /\ PasswordLogin)
        \/ (\E r \in Requests : Turn(r) /\ GoogleArrives(r))
        \/ SocialStep
        \/ (\E r \in Requests : Turn(r) /\ PhoneRegisters(r))
        \/ DeviceStep
        \/ (Quiet /\ PhoneSetup({b64encode("k1")}))
        \/ (Quiet /\ DisableBiometric)
       ]_vars

\* challenges and biometric logins on registered phones
SpecChallenge ==
    /\ InitPhones
    /\ [][
        \/ PhoneDeactivated
        \/ PhoneSetup({b64encode("k1")})
        \/ PhoneChallenge
        \/ PhoneLogin(Challenges)
       ]_vars

\* credentials turned down: beside a user who arrived by social login another
\* registers; they log in with a password, refresh and revoke their grants
\* and are deactivated, while the clock runs
SpecDenial ==
    /\ InitSocial
    /\ [][
        \/ SignUp \/ Authenticate
        \/ (\E e \in Emails, p \in Passwords : login(e, p, Phone, FALSE))
        \/ Refresh \/ Revoke \/ Deactivate \/ Tick
       ]_vars

\* the life of a phone: two users register the same device_id, update and
\* deactivate it, set biometric login up, ask for challenges and disable it;
\* one request at a time
SpecDeviceLife ==
    /\ InitPhone
    /\ [][
        \/ (\E r \in Requests : Turn(r) /\ PhoneRegisters(r))
        \/ DeviceStep
        \/ (Quiet /\ \E u \in users : update_device(u.id, Phone, "p2", TRUE))
        \/ (Quiet /\ PhoneDeactivated)
        \/ (Quiet /\ PhoneSetup({b64encode("k1")}))
        \/ (Quiet /\ PhoneChallenge)
        \/ (Quiet /\ DisableBiometric)
       ]_vars

\* grants of registered phones: users log in from their phone, refresh the
\* grant and deactivate the phone, while the clock runs
SpecDeviceGrant ==
    /\ InitPhones
    /\ [][
        \/ PasswordLogin \/ Refresh \/ PhoneDeactivated \/ Tick
       ]_vars

\* access tokens beside the token lifecycle: grants are issued, refreshed and
\* revoked, users are deactivated, and clients present their bearer tokens
SpecAccess ==
    /\ Init
    /\ [][
        \/ Issue \/ Refresh \/ Revoke \/ Deactivate \/ Tick
        \/ (\E token \in BearerTokens : get_current_user(token))
       ]_vars

\* device registrations of registered users, one request at a time
SpecDevice ==
    /\ Init
    /\ [][
        \/ (\E r \in Requests : Turn(r) /\ RegisterDevice(r))
        \/ DeviceStep
       ]_vars

----------------------------------------------------------------------------
(* Properties of the token lifecycle *)

\* the rows of a table whose hash is the digest of a token
RowsOf(rows, token) == {r \in rows : r.token_hash = SHA256(token)}

\* a row refresh can still match at time t, for some request
Usable(r, t) == r.is_active /\ r.expires_at > t

C2_RevokedNeverRefreshes ==
    /\ \A t \in revoked : \A r \in RowsOf(tokens, t) : ~r.is_active
    /\ \A t \in revoked : RowsOf(tokens, t) # {}
    /\ (last.op = "refresh" /\ last.token \in revoked) => last.ret = None

\* a refresh was refused for a revoked token whose row has the right device, is
\* not expired and belongs to an active user
C2_Witness ==
    /\ last.op = "refresh" /\ last.token \in revoked /\ last.ret = None
    /\ \E r \in RowsOf(last.before, last.token) :
           /\ r.device_id = last.device
           /\ r.expires_at > now
           /\ \E u \in users : u.id = r.user_id /\ u.is_active

C5_RevokeAllDeactivates ==
    last.op = "revoke_user_tokens" =>
        /\ \A r \in tokens :
               (r.user_id = last.user /\ (last.device = None \/ r.device_id # last.device))
                   => ~r.is_active
        /\ \A r \in last.before :
               (r.user_id # last.user \/ (last.device # None /\ r.device_id = last.device))
                   => r \in tokens

C7_TokenHashUnique ==
    /\ \A r1, r2 \in tokens : r1.token_hash = r2.token_hash => r1 = r2
    /\ (last.op = "create_tokens" /\ RowsOf(last.before, last.token) # {}) =>
           (last.ret = "IntegrityError" /\ tokens = last.before)

\* a create_tokens has drawn a token whose hash was stored
C7_Witness ==
    /\ last.op = "create_tokens"
    /\ RowsOf(last.before, last.token) # {}

C9_ExposedRefreshAndLogout ==
    /\ (/\ last.op = "api_refresh"
        /\ \E r \in RowsOf(tokens, last.token) :
               /\ r.device_id = last.device /\ Usable(r, now)
               /\ \E u \in users : u.id = r.user_id /\ u.is_active)
           => (last.ret = "pair" /\ last.refresh_token = last.token)
    /\ last.op = "api_logout" => \A r \in RowsOf(tokens, last.token) : ~r.is_active

\* C10 (as claimed): authenticate_user returns the user only for an active user
\* whose stored hash matches the password.
C10_AuthenticateOnlyActive ==
    (last.op = "authenticate_user" /\ last.ret = "user") =>
        \E u \in users : u.id = last.user /\ u.is_active

----------------------------------------------------------------------------
(* Properties of login *)

\* C11 (as claimed): a refresh token issued by login expires 7 days after it was
\* issued when the request has remember_me = false and 30 days after it was
\* issued when the request has remember_me = true.
C11_LoginExpiryFollowsRememberMe ==
    (last.op = "login" /\ last.ret = "pair") =>
        \A r \in RowsOf(tokens, last.refresh_token) :
            r.expires_at = now + (IF last.remember_me THEN RememberDays ELSE RefreshDays)

\* C12 (as claimed): the last_login update and the refresh-token insert of a
\* login commit together or not at all: a login that persisted its grant has
\* stamped last_login of its user, and no user carries a last_login without a
\* grant of a login.
C12_LoginCommitsBothOrNeither ==
    /\ (last.op = "login" /\ last.ret = "pair") =>
           \E u \in users : u.id = last.user /\ u.last_login = now
    /\ \A u \in users :
           u.last_login # NoTime => \E r \in tokens : r.user_id = u.id

----------------------------------------------------------------------------
(* Properties of social login *)

\* the users of a table that hold id in the slot of provider
HoldersOf(rows, provider, id) == {u \in rows : social_id(u, provider) = id}

\* the users of a table with an email
WithEmail(rows, email) == {u \in rows : u.email = email}

\* C14 (as claimed): given a user with email e and no user holding provider id
\* p, a social login whose verified identity asserts e and p leaves exactly one
\* user with email e, with p in that provider's slot, creates no user, and
\* returns tokens that belong to that user (stated for the requests that name
\* a device).
C14_SocialLinksExistingUser ==
    (/\ last.op = "social" /\ last.user_info.ok /\ last.device # None
     /\ WithEmail(last.was.users, last.user_info.email) # {}
     /\ HoldersOf(last.was.users, last.provider, last.user_info.id) = {})
        => /\ Cardinality(users) = Cardinality(last.was.users)
           /\ \E u \in users :
                  /\ WithEmail(users, last.user_info.email) = {u}
                  /\ social_id(u, last.provider) = last.user_info.id
                  /\ last.ret = "pair"
                  /\ \A r \in RowsOf(tokens, last.refresh_token) : r.user_id = u.id
                  /\ RowsOf(tokens, last.refresh_token) # {}

VerifierFails(provider, response) ==
    \/ provider \notin {"google", "apple"}
    \/ (provider = "google" /\ response.status_code # 200)

\* C18: when the provider-specific verifier fails, social authenticate returns
\* None and writes nothing: no user is created or modified and no refresh token
\* is persisted.
C18_VerifierFailureWritesNothing ==
    (last.op = "social" /\ VerifierFails(last.provider, last.response)) =>
        /\ last.ret = None
        /\ Store = last.was

\* a social login whose verifier failed has returned over a store that holds a
\* user without a Google id and a grant
C18_Witness ==
    /\ last.op = "social" /\ last.provider = "google" /\ last.response.status_code = 401
    /\ \E u \in last.was.users : u.google_id = None
    /\ last.was.tokens # {}

\* C13 (as claimed): biometric verify and social authenticate fail closed:
\* whenever either returns None, the persisted state equals the state before
\* the call: no refresh-token row was added, no user was created or linked, no
\* last_login or last_active was changed.
C13_NoneLeavesStoreUnchanged ==
    (last.op \in {"social", "biometric"} /\ last.ret = None) => Store = last.was

\* C16: under every interleaving of social logins and registrations no two
\* users share an email, no two users share a provider id in the same provider
\* slot, and of two requests that race to create the same user at most one
\* has its insert committed.
C16_UsersStayUnique ==
    /\ \A u, v \in users :
           (u.email = v.email
            \/ \E p \in {"google", "apple"} :
                   social_id(u, p) # None /\ social_id(u, p) = social_id(v, p))
               => u = v
    /\ \A q, r \in Requests :
           (q # r /\ inflight[q].path = "created" /\ inflight[r].path = "created")
               => /\ inflight[q].user # inflight[r].user
                  /\ \A u, v \in users :
                         (u.id = inflight[q].user /\ v.id = inflight[r].user)
                             => u.email # v.email

\* two requests have raced to create the user of one email: both looked the
\* email up before either inserted, one insert was committed and the other
\* was refused with a conflict
C16_Witness ==
    \E q, r \in Requests :
        /\ inflight[q].path = "created" /\ inflight[r].path = "conflict"
        /\ WithEmail(inflight[r].was.users, inflight[r].email) = {}
        /\ WithEmail(inflight[q].was.users, inflight[r].email) = {}
        /\ \E u \in WithEmail(users, inflight[r].email) : u.id = inflight[q].user

\* C17 (as claimed): when two concurrent social logins assert the same new
\* email and one loses the insert race, the loser retries as a lookup-then-link:
\* once both have returned, both have returned a token pair, and both pairs
\* belong to the same single user.
C17_LoserRetriesAsLookupThenLink ==
    \A q, r \in Requests :
        (/\ q # r
         /\ inflight[q].op = "social" /\ inflight[r].op = "social"
         /\ inflight[q].pc = "done" /\ inflight[r].pc = "done"
         /\ inflight[q].email = inflight[r].email
         /\ WithEmail(inflight[q].was.users, inflight[q].email) = {}
         /\ WithEmail(inflight[r].was.users, inflight[r].email) = {}
         /\ inflight[r].path = "conflict")
            => /\ inflight[q].ret = "pair" /\ inflight[r].ret = "pair"
               /\ inflight[q].user = inflight[r].user

----------------------------------------------------------------------------
(* Properties of device registration *)

\* C19 (as claimed): register called for a (user_id, device_id) that has a row
\* with another push token leaves exactly one row for the pair, holding the
\* push token of this call and marked active.
C19_RegisterAgainKeepsLatestPushToken ==
    (/\ last.op = "register_device"
     /\ \E d \in DevicesOf(last.was.devices, last.user, last.device) :
            d.fcm_token # last.push_token)
        => \E d \in devices :
               /\ DevicesOf(devices, last.user, last.device) = {d}
               /\ d.fcm_token = last.push_token
               /\ d.is_active

\* C20 (as claimed): for every interleaving of concurrent register calls there
\* is at most one device row per (user_id, device_id).
C20_OneRowPerUserAndDevice ==
    \A d, e \in devices :
        (d.user_id = e.user_id /\ d.device_id = e.device_id) => d = e

----------------------------------------------------------------------------
(* Properties of biometric login *)

\* C21: setup_biometric returns True exactly when the user has an active row
\* for the device; when it returns False nothing is changed; when it returns
\* True the user is enabled with the key of the request, the rows of that
\* device are biometric-capable with the type of the request, and nothing
\* else is changed.
C21_SetupNeedsActiveDevice ==
    last.op = "setup_biometric" =>
        LET found == {d \in DevicesOf(last.was.devices, last.user, last.device) :
                         d.is_active}
        IN /\ (last.ret = "True") = (found # {})
           /\ last.ret \in {"True", "False"}
           /\ last.ret = "False" => Store = last.was
           /\ last.ret = "True" =>
                  /\ users = {IF u.id = last.user
                              THEN [u EXCEPT !.biometric_enabled = TRUE,
                                             !.biometric_public_key = last.public_key]
                              ELSE u : u \in last.was.users}
                  /\ devices = {IF d.user_id = last.user /\ d.device_id = last.device
                                THEN [d EXCEPT !.supports_biometric = TRUE,
                                               !.biometric_type = last.biometric_type]
                                ELSE d : d \in last.was.devices}
                  /\ tokens = last.was.tokens

\* setup_biometric has returned False for a device the user has registered
\* and deactivated
C21_Witness ==
    /\ last.op = "setup_biometric" /\ last.ret = "False"
    /\ \E d \in DevicesOf(devices, last.user, last.device) : ~d.is_active

\* C22 (as claimed): a challenge that one verification has accepted is
\* consumed: no later authenticate_biometric of that user and device passes
\* its signature check and gets a grant with the same challenge.
C22_AcceptedChallengeIsConsumed ==
    (last.op = "biometric" /\ last.verified) =>
        Nonce(last.user, last.device, last.challenge) \notin last.asked.accepted

\* C23 (as claimed): authenticate_biometric passes its signature check and
\* issues a grant only for a challenge that generate_challenge has returned
\* for the same user and device.
C23_OnlyIssuedChallengesVerify ==
    (last.op = "biometric" /\ last.verified) =>
        Nonce(last.user, last.device, last.challenge) \in last.asked.issued

\* what a party that knows the challenge and the stored public key, and no
\* private key, can compute
Forged(public_key, challenge) == b64encode(SHA256(challenge \o hex(b64decode(public_key))))

\* C24 (as claimed): a signature computed from the challenge and the stored
\* public key alone is not accepted.
C24_ForgedSignatureFails ==
    (/\ last.op = "biometric"
     /\ \E u \in last.was.users :
            /\ u.id = last.user
            /\ u.biometric_public_key # None
            /\ last.signature = Forged(u.biometric_public_key, last.challenge))
        => ~last.verified

\* the user and the device of the last call met the precondition of biometric
\* login when the call arrived
MayUseBiometric ==
    /\ \E u \in last.was.users :
           u.id = last.user /\ u.is_active /\ u.biometric_enabled
    /\ \E d \in DevicesOf(last.was.devices, last.user, last.device) :
           d.is_active /\ d.supports_biometric

\* C25: authenticate_biometric passes verification, issues a grant or returns
\* a pair only if the user is active and biometric-enabled and the device row
\* is active and biometric-capable at the time of the call; otherwise (after
\* disable_biometric, after the device or the user is deactivated) it returns
\* None and writes nothing.
C25_VerifyNeedsEnabledUserAndDevice ==
    last.op = "biometric" =>
        /\ (last.verified \/ last.ret = "pair" \/ tokens # last.was.tokens)
               => MayUseBiometric
        /\ ~MayUseBiometric => (last.ret = None /\ Store = last.was)

\* a user whose challenge was accepted before has disabled biometric login, and
\* the same challenge with a well-formed signature is now turned down
C25_Witness ==
    /\ last.op = "biometric" /\ ~last.verified
    /\ Nonce(last.user, last.device, last.challenge) \in nonces.accepted
    /\ last.signature # "garbage"
    /\ \E u \in users : u.id = last.user /\ u.is_active /\ ~u.biometric_enabled
    /\ \E d \in DevicesOf(devices, last.user, last.device) : d.is_active

\* C26: generate_challenge returns a challenge exactly when the user has an
\* active, biometric-capable row for the device, None otherwise, and changes
\* no row.
C26_ChallengeNeedsCapableDevice ==
    last.op = "generate_challenge" =>
        /\ (last.ret # None) =
               (\E d \in DevicesOf(last.was.devices, last.user, last.device) :
                    d.is_active /\ d.supports_biometric)
        /\ last.ret \in Challenges \cup {None}
        /\ Store = last.was

\* generate_challenge has returned None for a registered, active phone that is
\* not biometric-capable, while another user's phone is
C26_Witness ==
    /\ last.op = "generate_challenge" /\ last.ret = None
    /\ \E d \in DevicesOf(devices, last.user, last.device) :
           d.is_active /\ ~d.supports_biometric
    /\ \E d \in devices : d.user_id # last.user /\ d.supports_biometric

\* C27: after disable_biometric the user is not biometric-enabled and has no
\* key, every device of the user is not biometric-capable and has no type,
\* and nothing else is changed: no other user, no other user's device, no
\* grant.
C27_DisableClearsUserAndOwnDevices ==
    last.op = "disable_biometric" =>
        /\ last.ret = "True"
        /\ users = {IF u.id = last.user
                    THEN [u EXCEPT !.biometric_enabled = FALSE,
                                   !.biometric_public_key = None]
                    ELSE u : u \in last.was.users}
        /\ devices = {IF d.user_id = last.user
                      THEN [d EXCEPT !.supports_biometric = FALSE,
                                     !.biometric_type = None]
                      ELSE d : d \in last.was.devices}
        /\ tokens = last.was.tokens

\* an enrolled user has disabled biometric login while another user stays
\* enrolled with a biometric-capable phone
C27_Witness ==
    /\ last.op = "disable_biometric"
    /\ \E u \in last.was.users :
           u.id = last.user /\ u.biometric_enabled /\ u.biometric_public_key # None
    /\ \E d \in last.was.devices : d.user_id = last.user /\ d.supports_biometric
    /\ \E u \in users : u.id # last.user /\ u.biometric_enabled
    /\ \E d \in devices :
           d.user_id # last.user /\ d.supports_biometric /\ d.biometric_type # None

\* C28: in every reachable state a user has a stored biometric public key if
\* and only if the user is biometric-enabled.
C28_KeyIffEnabled ==
    \A u \in users : (u.biometric_public_key # None) = u.biometric_enabled

\* an enrolled user has disabled biometric login, next to a user that a social
\* login has created
C28_Witness ==
    /\ last.op = "disable_biometric"
    /\ \E u \in last.was.users : u.id = last.user /\ u.biometric_enabled
    /\ \E u \in users : u.password_hash = None

----------------------------------------------------------------------------
(* Properties of refresh and revoke among concurrent requests *)

\* C29: whatever the interleaving of a revoke and a refresh of one token, the
\* token is inactive from the commit of the revoke on (the refresh that read
\* the row earlier and commits last_used later does not switch it on again),
\* and a refresh that arrives after that commit returns None at once.
C29_RevokeWinsOverRacingRefresh ==
    /\ \A t \in revoked : \A x \in RowsOf(tokens, t) : ~x.is_active
    /\ \A r \in Requests :
           (/\ inflight[r].op = "refresh"
            /\ \A x \in RowsOf(inflight[r].was.tokens, inflight[r].token) : ~x.is_active)
               => (inflight[r].pc = "done" /\ inflight[r].ret = None)

\* a refresh has returned a pair for a token whose revoke committed while the
\* refresh was between its read and its commit
C29_Witness ==
    /\ last.op = "refresh" /\ last.ret = "pair"
    /\ last.token \in revoked
    /\ \E x \in RowsOf(last.before, last.token) : x.is_active
    /\ \E x \in RowsOf(tokens, last.token) : ~x.is_active /\ x.last_used # NoTime

----------------------------------------------------------------------------
(* Properties of refused credentials *)

\* the one check a password login fails on, or "none" when it passes
LoginFailsOn(email, password) ==
    IF UserByEmail(email) = {} THEN "unknown email"
    ELSE IF \A u \in UserByEmail(email) : u.password_hash = None THEN "no password hash"
    ELSE IF Authenticated(email, password) = {} THEN "wrong password"
    ELSE "none"

\* the checks refresh(token, device_id) fails on over the rows it found at time t
RefreshFailsOn(rows, token, device_id, t) ==
    LET mine == RowsOf(rows, token)
        here == {r \in mine : r.device_id = device_id}
    IN IF mine = {} THEN {"unknown token"}
       ELSE IF here = {} THEN {"wrong device"}
       ELSE {"revoked" : r \in {x \in here : ~x.is_active}}
            \cup {"expired" : r \in {x \in here : x.expires_at <= t}}
            \cup {"inactive owner" : r \in {x \in here :
                       \A u \in users : u.id = x.user_id => ~u.is_active}}

\* C31: a refused password login answers the same whether the email is
\* unknown, the password wrong or the user without a password hash, and a
\* refused refresh answers the same whether the token is unknown, expired,
\* revoked, of another device or of an inactive owner: nothing in the answer
\* depends on the check that failed.
C31_DenialsLookAlike ==
    /\ (last.op = "login" /\ LoginFailsOn(last.email, last.password) # "none") =>
           /\ last.ret = "HTTP401"
           /\ last.token = None /\ last.refresh_token = None /\ last.user = None
    /\ (last.op = "refresh"
          /\ RefreshFailsOn(last.before, last.token, last.device, now) # {}) =>
           /\ last.ret = None
           /\ last.refresh_token = None /\ last.user = None

\* a password login was refused for a user who has no password hash, while
\* another email is unknown and a grant of that user is stored
C31_Witness ==
    /\ last.op = "login" /\ last.ret = "HTTP401"
    /\ LoginFailsOn(last.email, last.password) = "no password hash"
    /\ \E e \in Emails : UserByEmail(e) = {}
    /\ tokens # {}

----------------------------------------------------------------------------
(* Properties of what is stored *)

\* the String and Text columns of the three tables
TextColumns ==
    {"email", "password_hash", "google_id", "apple_id", "biometric_public_key",
     "user_id", "token_hash", "device_id", "device_type", "fcm_token", "biometric_type"}

\* the text a row holds in these columns
TextOf(row) == {row[c] : c \in DOMAIN row \cap TextColumns}

\* C32: no row of the store holds a refresh token as it was generated: every
\* refresh-token row holds the SHA-256 digest of its token and no column of
\* any table equals a token; a token leaves the service only in the answer of
\* the call that generated it, and refresh answers with the token it was sent.
C32_OnlyDigestsAreStored ==
    /\ \A r \in tokens : r.token_hash \in {SHA256(t) : t \in Tokens}
    /\ \A row \in users \cup tokens \cup devices : TextOf(row) \cap Tokens = {}
    /\ last.refresh_token # None =>
           \/ /\ last.op \in {"create_tokens", "login"} /\ last.ret = "pair"
              /\ last.refresh_token = last.token
              /\ RowsOf(last.before, last.token) = {}
              /\ RowsOf(tokens, last.token) # {}
           \/ /\ last.op = "refresh" /\ last.refresh_token = last.token

\* create_tokens has answered with a token whose digest it stored, beside an
\* older grant
C32_Witness ==
    /\ last.op = "create_tokens" /\ last.ret = "pair"
    /\ \E r \in tokens : r.token_hash = SHA256(last.refresh_token)
    /\ last.before # {}

----------------------------------------------------------------------------
(* Properties of the device a grant is bound to *)

\* C33 (as claimed): a social login whose identity was verified and whose user
\* was resolved commits a grant of that user, bound to the device_id of the
\* device info it was sent, and to "social_web" whenever it was sent none.
C33_SocialGrantBoundToDevice ==
    (last.op = "social" /\ last.user_info.ok /\ last.user # None) =>
        \E n \in tokens \ last.was.tokens :
            /\ n.user_id = last.user
            /\ n.device_id = (IF last.device = None THEN "social_web" ELSE last.device)

----------------------------------------------------------------------------
(* Properties of the device registry *)

\* C34 (as claimed): deactivate deletes no row: it returns true and switches
\* the row of (user, device_id) off, or returns false and changes nothing when
\* there is no such row; a later register of the same (user, device_id)
\* inserts no row and leaves that row active again.
C34_DeactivatedRowIsRevivedByRegister ==
    /\ last.op = "deactivate_device" =>
           LET mine == DevicesOf(last.was.devices, last.user, last.device)
           IN /\ {d.id : d \in devices} = {d.id : d \in last.was.devices}
              /\ last.ret = (IF mine = {} THEN "False" ELSE "True")
              /\ mine = {} => devices = last.was.devices
              /\ \A d \in mine : [d EXCEPT !.is_active = FALSE] \in devices
              /\ devices \ last.was.devices \subseteq
                     {[d EXCEPT !.is_active = FALSE] : d \in mine}
    /\ (/\ last.op = "register_device"
        /\ \E d \in DevicesOf(last.was.devices, last.user, last.device) : ~d.is_active)
           => /\ {d.id : d \in devices} = {d.id : d \in last.was.devices}
              /\ \A d \in DevicesOf(devices, last.user, last.device) : d.is_active

\* the operations on devices that are called for a user
DeviceOps ==
    {"register_device", "update_device", "deactivate_device",
     "setup_biometric", "generate_challenge", "disable_biometric"}

\* C35: device operations are scoped to their user: two users who registered
\* the same device_id hold a row each; an operation called for one user leaves
\* the rows of every other user as they were, and what it answers follows
\* from the caller's own rows alone.
C35_DeviceOpsStayWithTheirUser ==
    last.op \in DeviceOps =>
           LET mine == DevicesOf(last.was.devices, last.user, last.device)
           IN /\ {d \in devices : d.user_id # last.user}
                     = {d \in last.was.devices : d.user_id # last.user}
              /\ last.op = "register_device" =>
                     (mine = {} <=> Cardinality(devices) > Cardinality(last.was.devices))
              /\ last.op = "update_device" =>
                     (last.ret # None <=> \E d \in mine : d.is_active)
              /\ last.op = "deactivate_device" => (last.ret = "True" <=> mine # {})
              /\ last.op = "setup_biometric" =>
                     (last.ret = "True" <=> \E d \in mine : d.is_active)
              /\ last.op = "generate_challenge" =>
                     (last.ret # None <=> \E d \in mine : d.is_active /\ d.supports_biometric)

\* a user has registered a device_id another user holds a biometric-capable
\* row of, and got a row of their own
C35_Witness ==
    /\ last.op = "register_device"
    /\ DevicesOf(last.was.devices, last.user, last.device) = {}
    /\ DevicesOf(devices, last.user, last.device) # {}
    /\ \E d \in last.was.devices :
           d.user_id # last.user /\ d.device_id = last.device /\ d.supports_biometric

----------------------------------------------------------------------------
(* Properties of linked provider identities *)

\* C36 (as claimed): a provider id a user holds is never replaced: after a
\* social login every user who held an id of a provider before it holds the
\* same id of that provider.
C36_LinkedIdentityIsNeverReplaced ==
    last.op = "social" =>
        \A u \in last.was.users : \A p \in {"google", "apple"} :
            social_id(u, p) # None =>
                \E v \in users : v.id = u.id /\ social_id(v, p) = social_id(u, p)

----------------------------------------------------------------------------
(* Properties of grants and the device registry *)

----------------------------------------------------------------------------
(* Properties of access tokens *)

\* the access tokens minted with a grant: by the call that issued it and by
\* its last refresh
MintedWith(r) ==
    {access_token(r.user_id, r.expires_at - RefreshDays)}
    \cup (IF r.last_used = NoTime THEN {} ELSE {access_token(r.user_id, r.last_used)})

\* C38: get_current_user accepts an access token minted by issue or refresh
\* exactly while the token has not expired and its subject is an active user,
\* whatever has become of the refresh token it was minted with.
C38_AccessTokenOutlivesItsGrant ==
    last.op = "get_current_user" =>
        \A r \in tokens :
            last.bearer \in MintedWith(r) =>
                (last.ret = "user" <=>
                    /\ last.bearer.payload.exp >= now
                    /\ \E u \in users : u.id = r.user_id /\ u.is_active)

\* an access token was accepted after the one grant of its user had been revoked
C38_Witness ==
    /\ last.op = "get_current_user" /\ last.ret = "user"
    /\ \E r \in tokens : last.bearer \in MintedWith(r)
    /\ \A r \in tokens : r.user_id = last.user =>
           (~r.is_active /\ \E t \in revoked : r.token_hash = SHA256(t))

----------------------------------------------------------------------------
(* Properties of users without a password *)

\* C39: a user without a password hash is never authenticated by password:
\* authenticate_user called with the email of such a user returns None
\* whatever the password, and leaves the user, last_login included, as it was.
C39_NoHashNeverAuthenticates ==
    /\ \A p \in Passwords : ~verify_password(p, None)
    /\ (/\ last.op = "authenticate_user"
        /\ \E u \in UserByEmail(last.email) : u.password_hash = None)
           => /\ last.ret = None /\ last.user = None
              /\ users = last.was.users

\* authenticate_user has returned None for the email of a user who came by
\* social login, while a user with a password is registered
C39_Witness ==
    /\ last.op = "authenticate_user" /\ last.ret = None
    /\ \E u \in UserByEmail(last.email) : u.password_hash = None /\ u.google_id # None
    /\ \E u \in users : u.password_hash # None
====
